---- MODULE Spec2Model ----
(***************************************************************************)
(* A model of the load generator src/app/loadgen.py: the main thread of    *)
(* main() (preflight, the per-second Running loop, the drain, the exit of  *)
(* the pool's with-block, the report), the ThreadPoolExecutor's workers    *)
(* running do_request, the wall clock and the operator's interrupt.        *)
(*                                                                         *)
(* Time is counted in ticks of half a second.  A tick passes only where    *)
(* the main thread can observe it (before a read of time.time() or inside  *)
(* a blocking wait or sleep); the duration of a request is unconstrained.  *)
(* The fold of one future (one turn of the loops of lines 146 and 174) is  *)
(* one step.  The interrupt is the KeyboardInterrupt raised inside the     *)
(* try block of lines 128-193; one raised outside it ends the process      *)
(* without a report and is not part of the model.                          *)
(***************************************************************************)
EXTENDS Integers, Sequences, FiniteSets, TLC

\* ------------------------------------------------------------------ bounds
MaxEnd == 3            \* largest end_time - time.time() at start, in ticks
MaxAttempts == 2       \* the most requests a run of the model submits
MaxLen == 5            \* the longest latency list a report is computed from
Lats == {1, 2}                       \* latencies of a request
LatVals == {10, 20, 30, 40, 50}      \* latencies of the lists of MaxLen
WordVals == {-1, 1, 2}               \* values of --min-words / --max-words
ConcurrencyVals == {1, 2}            \* values of --concurrency

\* Python's None, and a value that is not None: an optional value is a set
\* of at most one element.
None == {}
Some(x) == {x}
The(s) == CHOOSE x \in s : TRUE

\* ------------------------------------------------------- program constants
OneSecond == 2         \* the 1.0 s of the cadence, in ticks
KeyLen == 60           \* error keys are cut to 60 characters

\* A string is a sequence of one-character strings.
\* A message whose first clause is longer than the key: 61 x, a colon, an o.
LongMsg == [i \in 1..(KeyLen + 3) |-> IF i <= KeyLen + 1 THEN "x"
                                      ELSE IF i = KeyLen + 2 THEN ":" ELSE "o"]
\* str(e) of the transport exceptions the target can cause (one is empty).
ErrMsgs == {<< >>, LongMsg}
\* str(e) of the decode error resp.json() raises on a body that is not JSON.
JsonErrMsg == <<"J", ":", "c">>

VARIABLES
    args,           \* the parsed command line (RunConfig)
    now,            \* time.time(), in ticks
    end_time,       \* line 75
    pc,             \* the main thread's position in main()
    attempts, successes, failures, status_counts, latencies, error_samples,
    inflight,       \* line 130: the set of futures carried across seconds
    second_start,   \* line 132
    rps,            \* line 133
    to_submit,      \* iterations left of the loop of line 134
    done,           \* line 143: the completed futures still to fold
    yielded,        \* the futures as_completed (line 174) has yielded so far
    want,           \* line 116: the word-count hint of the last chat request
    body,           \* line 120: the body of the last chat request
    fut,            \* each future's state
    result,         \* each finished future's result, the tuple do_request returns
    report,         \* lines 195-222: what the report shows, None before it
    target,         \* environment: what the target can do to a request
    batches,        \* history: how many turns of the Running loop have begun
    outcomes,       \* history: the outcomes do_request has returned, a multiset
    at_interrupt,   \* history: RunStats when the operator's interrupt arrived
    nfold,          \* history: how many times each future was folded
    interrupt,      \* history: where the operator's interrupt arrived
    probe,          \* history: how the preflight request ended
    net_in          \* history: what the network did to each request

stats == <<attempts, successes, failures, status_counts, latencies, error_samples>>
loopv == <<inflight, second_start, rps, to_submit, done, yielded>>
reqv == <<want, body>>
poolv == <<fut, result>>
hist == <<batches, outcomes, at_interrupt, nfold, interrupt, probe, net_in>>
conf == <<args, target, end_time>>
vars == <<conf, now, pc, stats, loopv, reqv, poolv, report, hist>>

\* ------------------------------------------------------------ pure helpers
Max(a, b) == IF a >= b THEN a ELSE b

\* random.randint(a, b): any integer of a..b
RandInt(a, b) == a..b

\* s.split(":")[0]
RECURSIVE SplitColon(_)
SplitColon(s) ==
    IF s = << >> \/ Head(s) = ":" THEN << >> ELSE <<Head(s)>> \o SplitColon(Tail(s))

\* s[:n]
Prefix(s, n) == IF Len(s) <= n THEN s ELSE SubSeq(s, 1, n)

\* err.split(":")[0][:60]
ErrKey(s) == Prefix(SplitColon(s), KeyLen)

\* collections.Counter: a function from the keys counted so far; c[k] += 1
\* and the count of a key (0 when absent).
Counter == << >>
Incr(c, k) == IF k \in DOMAIN c THEN [c EXCEPT ![k] = @ + 1] ELSE c @@ (k :> 1)
Count(c, k) == IF k \in DOMAIN c THEN c[k] ELSE 0

\* What the network does to one request: a response or a transport exception.
\* `json` tells whether the response's body decodes as JSON.
NetResults ==
    {[kind |-> "response", status_code |-> 200, json |-> TRUE],
     [kind |-> "response", status_code |-> 200, json |-> FALSE],
     [kind |-> "response", status_code |-> 500, json |-> FALSE]}
        \cup [kind : {"exception"}, msg : ErrMsgs]

\* do_request counting a 5xx response as a failure of the request.
do_request_5xxFails(net, lat) ==
    IF net.kind = "response"
    THEN [ok |-> net.status_code < 500, code |-> Some(net.status_code), lat |-> lat,
          err |-> None,
          resp |-> Some([status_code |-> net.status_code, json |-> net.json])]
    ELSE [ok |-> FALSE, code |-> None, lat |-> lat, err |-> Some(net.msg),
          resp |-> None]

\* do_request: the tuple (ok, code, latency, err, resp)
do_request(net, lat) ==
    IF net.kind = "response"
    THEN [ok |-> TRUE, code |-> Some(net.status_code), lat |-> lat, err |-> None,
          resp |-> Some([status_code |-> net.status_code, json |-> net.json])]
    ELSE [ok |-> FALSE, code |-> None, lat |-> lat, err |-> Some(net.msg),
          resp |-> None]

\* What RunStats can show of an outcome: ok, code and err, and the latency
\* of a success.
Seen(o) == [ok |-> o.ok, code |-> o.code, err |-> o.err,
            lat |-> IF o.ok THEN Some(o.lat) ELSE None]

\* The prompt corpus of a chat run (load_prompts), a prompt being a string.
prompts == {<<"a">>}

\* Lines 117-119: the prompt with its terminal punctuation and the hint.
Prompt(base, n) ==
    (IF base[Len(base)] \in {".", "?", "!"} THEN base ELSE base \o <<".">>)
        \o <<" ", n>>

\* The upper limit of the word-count hint, line 116.
WantUpper == Max(args.min_words, args.max_words)

\* The upper limit written as for an exclusive one (randrange).
RpsUpper_Exclusive == Max(1, args.max_rps) + 1

\* The upper limit of the rate, line 133.
RpsUpper == Max(1, args.max_rps)

\* sum(s)
RECURSIVE SumSeq(_)
SumSeq(s) == IF s = << >> THEN 0 ELSE Head(s) + SumSeq(Tail(s))

\* sorted(s), ascending
RECURSIVE Insert(_, _)
Insert(x, s) ==
    IF s = << >> THEN <<x>>
    ELSE IF x <= Head(s) THEN <<x>> \o s
    ELSE <<Head(s)>> \o Insert(x, Tail(s))
RECURSIVE sorted(_)
sorted(s) == IF s = << >> THEN << >> ELSE Insert(Head(s), sorted(Tail(s)))

\* The index taken without the - 1, int(0.95 * len(lat_sorted)).
P95Index_NoMinusOne(n) == (95 * n) \div 100

\* Line 201: int(0.95 * (len(lat_sorted) - 1)), for a list of n >= 1 elements.
\* The float product truncates to the same integer as 95 * (n - 1) \div 100
\* for every n up to 3 000 000.
P95Index(n) == (95 * (n - 1)) \div 100

\* statistics.mean(s), as the fraction <<numerator, denominator>>
Mean(s) == <<SumSeq(s), Len(s)>>

\* Counter.most_common(n): the n keys of the highest counts, with the counts.
MostCommon(c, n) ==
    LET k == IF Cardinality(DOMAIN c) <= n THEN Cardinality(DOMAIN c) ELSE n
        S == CHOOSE T \in SUBSET (DOMAIN c) :
                /\ Cardinality(T) = k
                /\ \A x \in T, y \in (DOMAIN c) \ T : c[x] >= c[y]
    IN  [x \in S |-> c[x]]

Handles == 1..attempts
Finished == {h \in Handles : fut[h] = "finished"}
Running == {h \in Handles : fut[h] = "running"}
Queued == {h \in Handles : fut[h] = "queued"}
\* The futures submitted and not yet handed to the fold.
PendingSet == inflight \ yielded

\* ------------------------------------------------------------------- Init
\* The command lines the model runs: every mode, concurrency and positive
\* --max-rps without preflight and with the word bounds 1 and 2; the others
\* with one worker and --max-rps 1: preflight, every pair of word bounds in
\* chat mode, and --max-rps 0 and -1.
RunConfigs ==
    [mode : {"get", "chat"}, max_rps : 1..MaxAttempts,
     concurrency : ConcurrencyVals, no_preflight : {TRUE},
     min_words : {1}, max_words : {2}]
    \cup [mode : {"get", "chat"}, max_rps : {1},
          concurrency : {1}, no_preflight : {FALSE},
          min_words : {1}, max_words : {2}]
    \cup [mode : {"chat"}, max_rps : {1},
          concurrency : {1}, no_preflight : {TRUE},
          min_words : WordVals, max_words : WordVals]
    \cup [mode : {"get"}, max_rps : {-1, 0},
          concurrency : {1}, no_preflight : {TRUE},
          min_words : {1}, max_words : {2}]

\* The Running loop starts its turns at least a second apart, so a run that
\* starts e ticks before end_time makes at most this many of them.
MaxIterations(e) == (e + OneSecond - 1) \div OneSecond

\* The targets: one that can do anything to a request, one that answers
\* every request with a 500.
Targets == {"any", "only500"}
TargetNets ==
    IF target = "any" THEN NetResults
    ELSE {[kind |-> "response", status_code |-> 500, json |-> FALSE]}

Init ==
    /\ args \in RunConfigs
    /\ target \in Targets
    /\ now = 0
    /\ end_time \in 0..MaxEnd
    /\ RpsUpper * MaxIterations(end_time) <= MaxAttempts
    /\ pc = "preflight"
    /\ attempts = 0 /\ successes = 0 /\ failures = 0
    /\ status_counts = Counter
    /\ latencies = << >>
    /\ error_samples = Counter
    /\ inflight = {} /\ second_start = 0 /\ rps = 0 /\ to_submit = 0
    /\ done = {} /\ yielded = {}
    /\ want = None /\ body = None
    /\ fut = << >> /\ result = << >>
    /\ nfold = << >>
    /\ report = None
    /\ batches = 0
    /\ outcomes = Counter
    /\ at_interrupt = None
    /\ interrupt = "none"
    /\ probe = "none"
    /\ net_in = << >>

\* -------------------------------------------------------------- preflight
\* Line 89: --no-preflight skips the probe.
PreflightSkip ==
    /\ pc = "preflight" /\ args.no_preflight
    /\ pc' = "loop_test"
    /\ probe' = "skipped"
    /\ UNCHANGED <<conf, report, now, stats, loopv, reqv, poolv, batches, outcomes,
                   at_interrupt, nfold, interrupt, net_in>>

\* The preflight without the return of line 101.
AfterPreflight_NoReturn(net) == "loop_test"

\* What main() does once the preflight request has ended with `net`,
\* lines 90-101: any response lets the run start, an exception returns.
AfterPreflight(net) == IF net.kind = "response" THEN "loop_test" ELSE "aborted"

\* Lines 90-97: the probe got a response, whatever its status code.
PreflightOk ==
    /\ pc = "preflight" /\ ~args.no_preflight
    /\ \E net \in TargetNets : net.kind = "response" /\ pc' = AfterPreflight(net)
    /\ probe' = "response"
    /\ UNCHANGED <<conf, report, now, stats, loopv, reqv, poolv, batches, outcomes,
                   at_interrupt, nfold, interrupt, net_in>>

\* Lines 98-101: the probe raised; main() returns.
PreflightFail ==
    /\ pc = "preflight" /\ ~args.no_preflight
    /\ \E net \in TargetNets : net.kind = "exception" /\ pc' = AfterPreflight(net)
    /\ probe' = "exception"
    /\ UNCHANGED <<conf, report, now, stats, loopv, reqv, poolv, batches, outcomes,
                   at_interrupt, nfold, interrupt, net_in>>

\* ----------------------------------------------------------- Running loop
\* Lines 131-133: the loop test holds; a new second starts, the rate is drawn.
LoopEnter ==
    /\ pc = "loop_test" /\ now < end_time
    /\ second_start' = now
    /\ \E r \in RandInt(1, RpsUpper) : rps' = r /\ to_submit' = r
    /\ pc' = "submit"
    /\ batches' = batches + 1
    /\ UNCHANGED <<conf, report, now, stats, inflight, done, yielded, reqv, poolv,
                   outcomes, at_interrupt, nfold, interrupt, probe, net_in>>

\* Line 131 fails, line 174: as_completed starts on the futures left.
LoopExit ==
    /\ pc = "loop_test" /\ ~(now < end_time)
    /\ yielded' = {}
    /\ pc' = "drain"
    /\ UNCHANGED <<conf, report, now, stats, inflight, second_start, rps, to_submit,
                   done, reqv, poolv, hist>>

\* The chat body with the word bounds put in order instead of clamped.
ChatBody_OrderedBounds ==
    \E base \in prompts,
       n \in RandInt(IF args.min_words <= args.max_words THEN args.min_words
                     ELSE args.max_words, WantUpper) :
        /\ want' = n
        /\ body' = [prompt |-> Prompt(base, n)]

\* submit_one, lines 113-120: the chat request's body.
ChatBody ==
    \E base \in prompts, n \in RandInt(args.min_words, WantUpper) :
        /\ want' = n
        /\ body' = [prompt |-> Prompt(base, n)]

\* One turn of the loop of lines 134-136, with submit_one (lines 106-126).
SubmitOne ==
    /\ pc = "submit" /\ to_submit > 0
    /\ attempts' = attempts + 1
    /\ IF args.mode = "get" THEN UNCHANGED reqv ELSE ChatBody
    /\ fut' = Append(fut, "queued")
    /\ result' = Append(result, None)
    /\ nfold' = Append(nfold, 0)
    /\ net_in' = Append(net_in, None)
    /\ inflight' = inflight \cup {attempts + 1}
    /\ to_submit' = to_submit - 1
    /\ pc' = IF to_submit' = 0 THEN "harvest" ELSE "submit"
    /\ UNCHANGED <<conf, report, now, successes, failures, status_counts, latencies,
                   error_samples, second_start, rps, done, yielded, batches,
                   outcomes, at_interrupt, interrupt, probe>>

\* Lines 140-142: the head of the harvest sub-loop.
HarvestCheck ==
    /\ pc = "harvest"
    /\ pc' = IF now - second_start >= OneSecond THEN "cadence" ELSE "wait"
    /\ UNCHANGED <<conf, report, now, stats, loopv, reqv, poolv, hist>>

\* A wait whose second result is dropped: `done, _ = wait(inflight, ...)`.
WaitReturn_KeepsDone ==
    /\ pc = "wait"
    /\ LET d == inflight \cap Finished IN
        /\ d # {} \/ inflight = {} \/ now - second_start >= OneSecond
        /\ done' = d
        /\ inflight' = inflight
        /\ pc' = IF d = {} THEN "cadence" ELSE "fold"
    /\ UNCHANGED <<conf, report, now, stats, second_start, rps, to_submit, yielded,
                   reqv, poolv, hist>>

\* Lines 143-145: wait(inflight, timeout, FIRST_COMPLETED) returns, at once
\* when a future of the set is finished or the set is empty, else when one
\* finishes or the rest of the second has passed.
WaitReturn ==
    /\ pc = "wait"
    /\ LET d == inflight \cap Finished IN
        /\ d # {} \/ inflight = {} \/ now - second_start >= OneSecond
        /\ done' = d
        /\ inflight' = inflight \ d
        /\ pc' = IF d = {} THEN "cadence" ELSE "fold"
    /\ UNCHANGED <<conf, report, now, stats, second_start, rps, to_submit, yielded,
                   reqv, poolv, hist>>

\* The harvest fold with an except clause that drops the exception.
FoldHarvest_DropsException(o) ==
    /\ UNCHANGED attempts
    /\ IF o.ok
       THEN /\ successes' = successes + 1
            /\ status_counts' = Incr(status_counts, The(o.code))
            /\ latencies' = Append(latencies, o.lat)
            /\ UNCHANGED <<failures, error_samples>>
       ELSE /\ failures' = failures + 1
            /\ error_samples' =
                   IF o.err # None /\ The(o.err) # << >>
                   THEN Incr(error_samples, ErrKey(The(o.err)))
                   ELSE error_samples
            /\ UNCHANGED <<successes, status_counts, latencies>>

\* Lines 148-166: the fold of one outcome in the harvest sub-loop.
FoldHarvest(o) ==
    /\ UNCHANGED attempts
    /\ IF o.ok
       THEN /\ successes' = successes + 1
            /\ status_counts' = Incr(status_counts, The(o.code))
            /\ latencies' = Append(latencies, o.lat)
            /\ IF args.mode = "chat" /\ The(o.code) = 200 /\ ~The(o.resp).json
               THEN \* resp.json() raises, lines 163-166
                    /\ failures' = failures + 1
                    /\ error_samples' = Incr(error_samples, ErrKey(JsonErrMsg))
               ELSE UNCHANGED <<failures, error_samples>>
       ELSE /\ failures' = failures + 1
            /\ error_samples' =
                   IF o.err # None /\ The(o.err) # << >>    \* if err:
                   THEN Incr(error_samples, ErrKey(The(o.err)))
                   ELSE error_samples
            /\ UNCHANGED <<successes, status_counts, latencies>>

\* One turn of the loop of line 146.
FoldOne ==
    /\ pc = "fold"
    /\ \E f \in done :
        /\ FoldHarvest(The(result[f]))
        /\ nfold' = [nfold EXCEPT ![f] = @ + 1]
        /\ result' = [result EXCEPT ![f] = None]    \* never read again
        /\ net_in' = [net_in EXCEPT ![f] = None]
        /\ done' = done \ {f}
        /\ pc' = IF done' = {} THEN "harvest" ELSE "fold"
    /\ UNCHANGED <<conf, report, now, inflight, second_start, rps, to_submit,
                   yielded, reqv, fut, batches, outcomes, at_interrupt,
                   interrupt, probe>>

\* The cadence without the sleep of lines 170-171.
Cadence_NoSleep ==
    /\ pc = "cadence"
    /\ pc' = "loop_test"
    /\ UNCHANGED <<conf, report, now, stats, loopv, reqv, poolv, hist>>

\* Lines 169-171: the sleep to the end of the second is over (or not needed).
Cadence ==
    /\ pc = "cadence"
    /\ now - second_start >= OneSecond
    /\ pc' = "loop_test"
    /\ UNCHANGED <<conf, report, now, stats, loopv, reqv, poolv, hist>>

\* The wall clock.  Within a second it advances where the main thread reads it
\* or blocks (lines 140, 143, 169-171); beyond the second it advances before
\* the loop test of line 131, which is where an overrun is next observed.
Tick ==
    /\ \/ pc \in {"harvest", "wait", "cadence"} /\ now - second_start < OneSecond
       \/ pc = "loop_test" /\ now < end_time
    /\ now' = now + 1
    /\ UNCHANGED <<conf, report, pc, stats, loopv, reqv, poolv, hist>>

\* ------------------------------------------------------------------ drain
\* The drain fold without the latency of a success.
FoldDrain_NoLatency(o) ==
    /\ UNCHANGED attempts
    /\ IF o.ok
       THEN /\ successes' = successes + 1
            /\ status_counts' = Incr(status_counts, The(o.code))
            /\ UNCHANGED <<failures, error_samples, latencies>>
       ELSE /\ failures' = failures + 1
            /\ error_samples' =
                   IF o.err # None /\ The(o.err) # << >>
                   THEN Incr(error_samples, ErrKey(The(o.err)))
                   ELSE error_samples
            /\ UNCHANGED <<successes, status_counts, latencies>>

\* The drain fold counting a response of status 400 or more as a failure.
FoldDrain_HttpErrorFails(o) ==
    /\ UNCHANGED attempts
    /\ IF o.ok /\ The(o.code) < 400
       THEN /\ successes' = successes + 1
            /\ status_counts' = Incr(status_counts, The(o.code))
            /\ latencies' = Append(latencies, o.lat)
            /\ UNCHANGED <<failures, error_samples>>
       ELSE /\ failures' = failures + 1
            /\ error_samples' =
                   IF o.err # None /\ The(o.err) # << >>
                   THEN Incr(error_samples, ErrKey(The(o.err)))
                   ELSE error_samples
            /\ UNCHANGED <<successes, status_counts, latencies>>

\* Lines 176-190: the fold of one outcome in the drain.
FoldDrain(o) ==
    /\ UNCHANGED attempts
    /\ IF o.ok
       THEN /\ successes' = successes + 1
            /\ status_counts' = Incr(status_counts, The(o.code))
            /\ latencies' = Append(latencies, o.lat)
            /\ UNCHANGED <<failures, error_samples>>
       ELSE /\ failures' = failures + 1
            /\ error_samples' =
                   IF o.err # None /\ The(o.err) # << >>    \* if err:
                   THEN Incr(error_samples, ErrKey(The(o.err)))
                   ELSE error_samples
            /\ UNCHANGED <<successes, status_counts, latencies>>

\* Line 174: as_completed yields a finished future of the set, which is folded.
DrainOne ==
    /\ pc = "drain"
    /\ \E f \in PendingSet \cap Finished :
        /\ FoldDrain(The(result[f]))
        /\ nfold' = [nfold EXCEPT ![f] = @ + 1]
        /\ result' = [result EXCEPT ![f] = None]    \* never read again
        /\ net_in' = [net_in EXCEPT ![f] = None]
        /\ yielded' = yielded \cup {f}
    /\ UNCHANGED <<conf, report, now, pc, inflight, second_start, rps, to_submit,
                   done, reqv, fut, batches, outcomes, at_interrupt,
                   interrupt, probe>>

\* Line 174: as_completed is exhausted; the with-block of line 129 is left.
DrainEnd ==
    /\ pc = "drain" /\ PendingSet = {}
    /\ pc' = "shutdown"
    /\ UNCHANGED <<conf, report, now, stats, loopv, reqv, poolv, hist>>

\* ---------------------------------------------------- interrupt and report
\* The positions of the main thread inside the with-block of lines 129-190.
InPool == {"loop_test", "submit", "harvest", "wait", "fold", "cadence", "drain"}

\* The interrupt caught inside the Running loop, which then goes on.
OnInterrupt_CaughtInLoop == "loop_test"

\* Where a KeyboardInterrupt raised inside the with-block takes the main
\* thread: to the block's __exit__, which is pool.shutdown(wait=True).
OnInterrupt == "shutdown"

\* An interrupt that discards the statistics collected so far.
Interrupt_DiscardsStats ==
    /\ pc \in InPool /\ interrupt = "none"
    /\ interrupt' = pc
    /\ at_interrupt' = Some(stats)
    /\ pc' = OnInterrupt
    /\ attempts' = 0 /\ successes' = 0 /\ failures' = 0
    /\ status_counts' = Counter /\ latencies' = << >> /\ error_samples' = Counter
    /\ UNCHANGED <<conf, report, now, loopv, reqv, poolv, batches, outcomes,
                   nfold, probe, net_in>>

\* The operator's interrupt arrives while the main thread is in the with-block.
Interrupt ==
    /\ pc \in InPool /\ interrupt = "none"
    /\ interrupt' = pc
    /\ at_interrupt' = Some(stats)
    /\ pc' = OnInterrupt
    /\ UNCHANGED <<conf, report, now, stats, loopv, reqv, poolv, batches, outcomes,
                   nfold, probe, net_in>>

\* Line 129, the exit of the with-block: every future has run to its end.
ShutdownEnd ==
    /\ pc = "shutdown" /\ Finished = Handles
    /\ pc' = "report"
    /\ UNCHANGED <<conf, report, now, stats, loopv, reqv, poolv, hist>>

\* An interrupt during the shutdown's wait ends the wait, lines 192-193.
InterruptShutdown ==
    /\ pc = "shutdown" /\ interrupt # "none" /\ Finished # Handles
    /\ pc' = "report"
    /\ UNCHANGED <<conf, report, now, stats, loopv, reqv, poolv, hist>>

\* Lines 195-202: the values the report derives from RunStats.
\* success_rate is the fraction <<numerator, denominator>>.
Derived ==
    [total |-> attempts,
     success_rate |-> IF attempts > 0 THEN <<successes * 100, attempts>> ELSE <<0, 1>>,
     avg_lat |-> IF latencies # << >> THEN Some(Mean(latencies)) ELSE None,
     p95_lat |-> IF latencies # << >>
                 THEN Some(sorted(latencies)[P95Index(Len(latencies)) + 1])
                 ELSE None]

\* Lines 204-222: the report is printed.  `lines` are the optional lines of
\* the report that are printed.
Report ==
    /\ pc = "report"
    /\ pc' = "done"
    /\ report' = LET d == Derived IN
         Some([total |-> d.total, successes |-> successes, failures |-> failures,
               success_rate |-> d.success_rate,
               status_codes |-> status_counts,
               avg_lat |-> d.avg_lat, p95_lat |-> d.p95_lat,
               errors |-> MostCommon(error_samples, 5),
               lines |-> {l \in {"Status codes", "Latency avg", "Latency p95",
                                  "Sample errors"} :
                            \/ l = "Status codes" /\ DOMAIN status_counts # {}
                            \/ l = "Latency avg" /\ d.avg_lat # None
                            \/ l = "Latency p95" /\ d.p95_lat # None
                            \/ l = "Sample errors" /\ DOMAIN error_samples # {}}])
    /\ UNCHANGED <<conf, now, stats, loopv, reqv, poolv, hist>>

\* ---------------------------------------------------------------- workers
\* A pool that starts a thread for every work item.
WorkerStart_ThreadPerItem ==
    /\ \E h \in Queued :
        /\ \A g \in Queued : h <= g
        /\ fut' = [fut EXCEPT ![h] = "running"]
    /\ UNCHANGED <<conf, report, now, pc, stats, loopv, reqv, result, hist>>

\* A free worker of the pool takes the oldest queued work item.
WorkerStart ==
    /\ Cardinality(Running) < args.concurrency
    /\ \E h \in Queued :
        /\ \A g \in Queued : h <= g
        /\ fut' = [fut EXCEPT ![h] = "running"]
    /\ UNCHANGED <<conf, report, now, pc, stats, loopv, reqv, result, hist>>

\* A worker's do_request returns and the future gets its result.
WorkerFinish ==
    /\ \E h \in Running, net \in TargetNets, lat \in Lats :
        /\ fut' = [fut EXCEPT ![h] = "finished"]
        /\ result' = [result EXCEPT ![h] = Some(do_request(net, lat))]
        /\ net_in' = [net_in EXCEPT ![h] = Some(net)]
        /\ outcomes' = Incr(outcomes, Seen(do_request(net, lat)))
    /\ UNCHANGED <<conf, report, now, pc, stats, loopv, reqv, batches, at_interrupt,
                   nfold, interrupt, probe>>

Next ==
    \/ PreflightSkip \/ PreflightOk \/ PreflightFail
    \/ LoopEnter \/ LoopExit \/ SubmitOne
    \/ HarvestCheck \/ WaitReturn \/ FoldOne \/ Cadence \/ Tick
    \/ DrainOne \/ DrainEnd
    \/ Interrupt \/ ShutdownEnd \/ InterruptShutdown \/ Report
    \/ WorkerStart \/ WorkerFinish

Spec == Init /\ [][Next]_vars

\* -------------------------------------------------------------- fairness
\* The steps of the main thread.
MainThread ==
    \/ PreflightSkip \/ PreflightOk \/ PreflightFail
    \/ LoopEnter \/ LoopExit \/ SubmitOne
    \/ HarvestCheck \/ WaitReturn \/ FoldOne \/ Cadence
    \/ DrainOne \/ DrainEnd \/ ShutdownEnd \/ Report

\* The main thread keeps running, the clock keeps advancing, a free worker
\* takes queued work, and every request ends: do_request passes
\* timeout=args.timeout to requests (lines 45 and 47).  Nothing makes the
\* operator interrupt the run.
\* The fair runs are checked for one worker and --max-rps 1, in both modes,
\* with and without preflight, against both targets.
InitFair == Init /\ args.max_rps = 1 /\ args.concurrency = 1 /\ args.min_words = 1
                 /\ args.max_words = 2

FairSpec ==
    /\ InitFair /\ [][Next]_vars
    /\ WF_vars(MainThread)
    /\ WF_vars(Tick)
    /\ WF_vars(WorkerStart)
    /\ WF_vars(WorkerFinish)

\* ------------------------------------------------- the report on its own
\* The report after a get-mode run that was not interrupted, whose requests
\* all got a 200 and were all harvested in the Running loop: one latency per
\* request, in the order of completion, any list of up to MaxLen latencies.
LatencyLists == UNION {[1..n -> LatVals] : n \in 0..MaxLen}
NetOk == [kind |-> "response", status_code |-> 200, json |-> TRUE]
RECURSIVE OutcomesOf(_)
OutcomesOf(lats) ==
    IF lats = << >> THEN Counter
    ELSE Incr(OutcomesOf(Tail(lats)), Seen(do_request(NetOk, Head(lats))))

InitReport ==
    /\ args = [mode |-> "get", max_rps |-> MaxLen, concurrency |-> 1,
               no_preflight |-> TRUE, min_words |-> 1, max_words |-> 2]
    /\ target = "any"
    /\ end_time = 1 /\ now = 1
    /\ pc = "report"
    /\ latencies \in LatencyLists
    /\ attempts = Len(latencies) /\ successes = Len(latencies) /\ failures = 0
    /\ status_counts = IF latencies = << >> THEN Counter
                       ELSE (200 :> Len(latencies))
    /\ error_samples = Counter
    /\ inflight = {} /\ second_start = 0
    /\ rps = Len(latencies) /\ to_submit = 0
    /\ done = {} /\ yielded = {}
    /\ want = None /\ body = None
    /\ fut = [h \in 1..Len(latencies) |-> "finished"]
    /\ result = [h \in 1..Len(latencies) |-> None]
    /\ nfold = [h \in 1..Len(latencies) |-> 1]
    /\ report = None
    /\ batches = IF latencies = << >> THEN 0 ELSE 1
    /\ outcomes = OutcomesOf(latencies)
    /\ at_interrupt = None
    /\ interrupt = "none"
    /\ probe = "skipped"
    /\ net_in = [h \in 1..Len(latencies) |-> None]

SpecReport == InitReport /\ [][Report]_vars

\* ================================================================== claims
\* The positions of the Running phase (lines 131-171).
RunningPcs == {"loop_test", "submit", "harvest", "wait", "fold", "cadence"}
\* The report is being or has been produced.
Reported == pc \in {"report", "done"}

\* C1: in every reachable state of a run, attempts == successes + failures.
C1_AttemptsBalance == attempts = successes + failures

\* C2: when the operator's interrupt arrived during Running and every request
\* has run to its end, every request that was in the PendingSet at the
\* interrupt has been folded by the time the report is produced.  (After such
\* an interrupt nothing changes inflight, so at the report it still is the
\* PendingSet of that moment.)
C2_InterruptDrains ==
    (Reported /\ interrupt \in RunningPcs /\ Finished = Handles)
        => \A h \in inflight : nfold[h] = 1

\* C3: no handle is folded twice; a handle is out of the PendingSet only when
\* it has been folded (or is in the batch the harvest is folding); and at the
\* end of a run that was not interrupted the PendingSet is empty.
C3_FoldedExactlyOnce ==
    /\ \A h \in Handles :
          /\ nfold[h] <= 1
          /\ h \in PendingSet => nfold[h] = 0
          /\ h \notin PendingSet => nfold[h] = 1 \/ (pc = "fold" /\ h \in done)
    /\ (Reported /\ interrupt = "none") => PendingSet = {}

\* C4: the latency sequence is as long as successes; a step that increments
\* successes appends exactly one latency, and a step that increments
\* failures appends none.
C4_LatenciesMatchSuccesses ==
    [][/\ Len(latencies') = successes'
       /\ successes' # successes =>
             successes' = successes + 1 /\ Len(latencies') = Len(latencies) + 1
       /\ failures' # failures => latencies' = latencies]_vars

C6_OutcomeShape ==
    \A h \in Handles :
        result[h] # None =>
            LET o == The(result[h])
                net == The(net_in[h])
            IN  /\ o.ok => o.code # None /\ o.err = None
                /\ ~o.ok => o.code = None
                /\ net.kind = "response" => o.ok /\ o.code = Some(net.status_code)
                /\ net.kind = "exception" => ~o.ok
C6_Witness ==
    \E g, h \in Handles :
        /\ result[g] # None /\ The(result[g]).ok /\ The(result[g]).code = Some(500)
        /\ result[h] # None /\ ~The(result[h]).ok

\* C7: when the preflight request raised, main() has returned: the run is not
\* in Running, nothing was submitted and attempts is 0.
C7_PreflightFailureAborts ==
    probe = "exception" =>
        pc = "aborted" /\ attempts = 0 /\ fut = << >> /\ inflight = {}
C7_Witness == probe = "exception" /\ pc = "aborted" /\ ~args.no_preflight

\* The rate of the turn of the Running loop that is under way is in range,
\* and the submissions still to make are at most rps.
C8_RateOk ==
    pc \in RunningPcs \ {"loop_test"} =>
        /\ 1 <= rps
        /\ rps <= (IF args.max_rps > 1 THEN args.max_rps ELSE 1)
        /\ args.max_rps = 1 => rps = 1
        /\ to_submit \in 0..rps
        /\ pc # "submit" => to_submit = 0
\* C8: in a turn of the Running loop, 1 <= rps <= max(1, max_rps), rps is 1
\* when max_rps is 1, and the turn submits rps requests, one at a time.
C8_RateBounds ==
    [][/\ C8_RateOk'
       /\ (pc = "loop_test" /\ pc' = "submit") => to_submit' = rps'
       /\ (pc # "loop_test" /\ to_submit' # to_submit) =>
             pc = "submit" /\ to_submit' = to_submit - 1
       /\ attempts' # attempts =>
             attempts' = attempts + 1 /\ to_submit' = to_submit - 1]_vars
C8_Witness ==
    /\ args.max_rps = -1 /\ pc = "wait" /\ rps = 1 /\ attempts = 2

\* In chat mode, future f holds a response of status 200 whose body is not JSON.
C9_BadJson200(f) ==
    /\ args.mode = "chat"
    /\ LET o == The(result[f]) IN o.ok /\ o.code = Some(200) /\ ~The(o.resp).json
\* C9: in chat mode, when the harvest folds a response of status 200 whose
\* body is not JSON, failures and the error histogram's entry of the decode
\* error grow by one and the harvest goes on with the next future or the next
\* turn of its loop.
C9_DecodeErrorFolded ==
    [][\A f \in done :
          (f \notin done' /\ C9_BadJson200(f)) =>
              /\ failures' = failures + 1
              /\ Count(error_samples', ErrKey(JsonErrMsg))
                    = Count(error_samples, ErrKey(JsonErrMsg)) + 1
              /\ done' = done \ {f}
              /\ pc' = IF done' = {} THEN "harvest" ELSE "fold"]_vars
C9_Witness ==
    /\ args.mode = "chat" /\ pc = "fold" /\ done # {}
    /\ failures = 1 /\ Count(error_samples, <<"J">>) = 1

\* C10: in chat mode the word-count hint N put in the prompt satisfies
\* min_words <= N <= max(min_words, max_words), and N is min_words when
\* max_words < min_words.
C10_WordHint ==
    (args.mode = "chat" /\ attempts > 0) =>
        /\ args.min_words <= want
        /\ want <= (IF args.max_words > args.min_words THEN args.max_words
                    ELSE args.min_words)
        /\ args.max_words < args.min_words => want = args.min_words
        /\ body.prompt[Len(body.prompt)] = want
C10_Witness ==
    /\ args.mode = "chat" /\ attempts > 0
    /\ args.min_words = 2 /\ args.max_words = 1 /\ want = 2

\* C11: the reported p95 of a non-empty latency list of length n is the
\* element at index floor(0.95 * (n - 1)) of the list sorted ascending,
\* whatever the order the latencies were appended in (of [10,20,30,40,50] in
\* any order it is 40); of an empty list neither p95 nor mean is reported.
\* The element at index idx of the sorted list is the value of the list
\* with at most idx elements below it and at least idx + 1 not above it.
C11_P95 ==
    report # None =>
        LET r == The(report)
            n == Len(latencies)
        IN  IF n = 0
            THEN /\ r.p95_lat = None /\ r.avg_lat = None
                 /\ "Latency p95" \notin r.lines /\ "Latency avg" \notin r.lines
            ELSE /\ r.p95_lat # None /\ r.avg_lat # None
                 /\ "Latency p95" \in r.lines /\ "Latency avg" \in r.lines
                 /\ \E idx \in 0..(n - 1) :
                       /\ 100 * idx <= 95 * (n - 1)
                       /\ 95 * (n - 1) < 100 * (idx + 1)
                       /\ LET v == The(r.p95_lat) IN
                             /\ \E i \in 1..n : latencies[i] = v
                             /\ Cardinality({i \in 1..n : latencies[i] < v}) <= idx
                             /\ Cardinality({i \in 1..n : latencies[i] <= v}) >= idx + 1
                 /\ (n = 5 /\ {latencies[i] : i \in 1..n} = {10, 20, 30, 40, 50})
                       => r.p95_lat = Some(40)
C11_Witness ==
    /\ pc = "done" /\ latencies = <<50, 10, 40, 20, 30>>
    /\ report # None /\ The(report).p95_lat = Some(40)

\* A step that folds the outcome of a future.
FoldStep == \E h \in Handles : nfold'[h] # nfold[h]

\* C12: the fold of one outcome changes exactly one of successes and
\* failures, by exactly 1; no outcome is counted as a success and as a
\* failure.
C12_FoldCountsOnce ==
    [][FoldStep =>
          \/ successes' = successes + 1 /\ failures' = failures
          \/ failures' = failures + 1 /\ successes' = successes]_vars

\* C13: the drain folds an outcome exactly as the harvest of the Running
\* loop does: every fold step, in either phase, changes successes, failures,
\* status_counts, latencies and error_samples as the harvest fold does and
\* as the drain fold does.
C13_DrainFoldsAsHarvest ==
    [][\A f \in Handles :
          nfold'[f] # nfold[f] =>
              /\ FoldHarvest(The(result[f]))
              /\ FoldDrain(The(result[f]))]_vars

\* The Running loop has been left: by the failed loop test, by an interrupt
\* or by the return of the preflight.
LoopExited == pc \notin RunningPcs \cup {"preflight"}

\* C14: once the Running loop has exited, by the deadline or by an
\* interrupt, nothing is submitted any more: the loop is not entered again,
\* attempts and the set of submitted handles do not grow; and a request is
\* only submitted in an iteration whose loop test saw now < end_time.
C14_NoSubmitAfterExit ==
    [][/\ (LoopExited \/ interrupt # "none") =>
             /\ pc' \notin RunningPcs
             /\ attempts' = attempts
             /\ DOMAIN fut' = DOMAIN fut
             /\ inflight' \subseteq inflight
       /\ attempts' # attempts =>
             /\ pc = "submit" /\ second_start < end_time
             /\ ~LoopExited /\ interrupt = "none"]_vars
C14_Witness ==
    /\ pc = "done" /\ target = "any" /\ interrupt = "none"
    /\ attempts = 2 /\ yielded # {} /\ now >= end_time

\* C15: two consecutive turns of the Running loop begin (second_start) at
\* least one second apart, whatever was harvested in between, also when
\* nothing was pending or the harvest sub-loop ended early; so a run that
\* starts D before end_time begins at most ceil(D) turns.
C15_Cadence ==
    [][/\ (second_start' # second_start \/ batches' # batches) =>
             /\ batches' = batches + 1
             /\ batches > 0 => second_start' - second_start >= OneSecond
       /\ batches' <= MaxIterations(end_time)]_vars
C15_Witness ==
    /\ batches = 2 /\ pc = "submit" /\ inflight = {} /\ attempts = 1
    /\ second_start >= OneSecond

\* The handles of the batch of this turn of the Running loop.
Batch == (attempts - rps + 1)..attempts

\* C16: at most `concurrency` requests are executing at any moment, and a
\* submit never blocks the main thread, also when rps > concurrency: when
\* the harvest begins every handle of the batch is in the PendingSet, and a
\* queued request starts only when fewer than `concurrency` are executing.
C16_PoolBound ==
    [][/\ Cardinality(Running) <= args.concurrency
       /\ Cardinality(Running') <= args.concurrency
       /\ (pc = "submit" /\ interrupt = "none") => ENABLED SubmitOne
       /\ (pc = "submit" /\ pc' = "harvest") =>
             /\ Cardinality(Batch') = rps'
             /\ Batch' \subseteq PendingSet'
       /\ \A h \in Handles :
             (fut[h] = "queued" /\ fut'[h] # "queued") =>
                 /\ fut'[h] = "running"
                 /\ Cardinality(Running) < args.concurrency]_vars
C16_Witness ==
    /\ pc = "harvest" /\ rps = 2 /\ args.concurrency = 1
    /\ fut = <<"running", "queued">> /\ PendingSet = {1, 2}

\* The number of elements of the multiset c that satisfy P.
RECURSIVE SumCounts(_, _)
SumCounts(c, S) ==
    IF S = {} THEN 0
    ELSE LET x == CHOOSE y \in S : TRUE IN c[x] + SumCounts(c, S \ {x})
HowMany(c, P(_)) == SumCounts(c, {x \in DOMAIN c : P(x)})

\* C17: the final counts of an uninterrupted get-mode run are a function of
\* the multiset of the outcomes of its requests, whatever the order of the
\* completions and whether an outcome was harvested in some second or
\* folded in the drain: attempts, successes, failures, every count of
\* status_counts and error_samples, and the multiset of the latencies.
C17_OrderIndependent ==
    (Reported /\ interrupt = "none" /\ args.mode = "get") =>
        /\ attempts = HowMany(outcomes, LAMBDA o : TRUE)
        /\ successes = HowMany(outcomes, LAMBDA o : o.ok)
        /\ failures = HowMany(outcomes, LAMBDA o : ~o.ok)
        /\ \A c \in {200, 500} \cup DOMAIN status_counts :
              Count(status_counts, c) =
                  HowMany(outcomes, LAMBDA o : o.ok /\ o.code = Some(c))
        /\ \A k \in {ErrKey(m) : m \in ErrMsgs} \cup DOMAIN error_samples :
              Count(error_samples, k) =
                  HowMany(outcomes, LAMBDA o : /\ ~o.ok /\ o.err # None
                                               /\ The(o.err) # << >>
                                               /\ ErrKey(The(o.err)) = k)
        /\ \A l \in Lats \cup LatVals :
              Cardinality({i \in DOMAIN latencies : latencies[i] = l}) =
                  HowMany(outcomes, LAMBDA o : o.ok /\ o.lat = Some(l))
        /\ Len(latencies) = successes
C17_Witness ==
    /\ pc = "done" /\ interrupt = "none" /\ args.mode = "get"
    /\ latencies = <<2, 1>> /\ nfold = <<1, 1>> /\ inflight = {2} /\ yielded = {2}

\* C18: when every request ends and the workers are scheduled fairly, a run
\* that has entered the pool reaches Done, with the report produced and an
\* empty PendingSet.
C18_ReachesDone ==
    (pc \in InPool) ~> (pc = "done" /\ report # None /\ PendingSet = {})
\* The same of a run the operator does not interrupt, and the end of the
\* Running loop once the deadline has passed.
C18_UninterruptedReachesDone ==
    /\ (pc \in InPool) ~>
           (interrupt # "none" \/ (pc = "done" /\ report # None /\ PendingSet = {}))
    /\ (pc \in RunningPcs /\ now >= end_time) ~> (pc \notin RunningPcs)
    /\ (pc \in InPool) ~> (pc = "done" /\ report # None)

\* Every count of the Counter c is at most its count in d.
CounterLeq(c, d) == \A k \in DOMAIN c : k \in DOMAIN d /\ c[k] <= d[k]

\* C19: RunStats only grows, in every step, an interrupt included: no
\* counter and no count of a histogram decreases and latencies is only
\* appended to; the report after an interrupt shows successes, failures and
\* histogram counts of at least the values at the interrupt.
C19_StatsOnlyGrow ==
    [][/\ attempts' >= attempts /\ successes' >= successes /\ failures' >= failures
       /\ CounterLeq(status_counts, status_counts')
       /\ CounterLeq(error_samples, error_samples')
       /\ Len(latencies') >= Len(latencies)
       /\ SubSeq(latencies', 1, Len(latencies)) = latencies
       /\ (at_interrupt' # None /\ report' # None) =>
             LET r == The(report')
                 a == The(at_interrupt')
             IN  /\ r.total >= a[1] /\ r.successes >= a[2] /\ r.failures >= a[3]
                 /\ CounterLeq(a[4], r.status_codes)
                 /\ Cardinality(DOMAIN a[6]) <= 5 => CounterLeq(a[6], r.errors)
                 /\ \A k \in DOMAIN a[6] \cap DOMAIN r.errors : a[6][k] <= r.errors[k]]_vars
C19_Witness ==
    /\ pc = "done" /\ report # None /\ interrupt = "wait"
    /\ at_interrupt # None /\ The(at_interrupt)[2] = 1 /\ The(at_interrupt)[3] = 1
    /\ DOMAIN The(at_interrupt)[6] # {} /\ attempts = 2

\* C20: in get mode, whenever the main thread is not in the middle of
\* folding a harvested batch (the fold was neither under way nor cut short
\* by an interrupt), attempts == successes + failures + |PendingSet|: every
\* submitted request is either still pending or has been folded once.
C20_AttemptsAccounted ==
    (args.mode = "get" /\ pc # "fold" /\ interrupt # "fold") =>
        /\ attempts = successes + failures + Cardinality(PendingSet)
        /\ \A h \in Handles : IF h \in PendingSet THEN nfold[h] = 0 ELSE nfold[h] = 1
C20_Witness ==
    /\ args.mode = "get" /\ pc = "harvest" /\ interrupt = "none"
    /\ attempts = 2 /\ successes = 1 /\ failures = 0 /\ PendingSet = {2}
    /\ batches = 1

====
